---- MODULE Spec2Model ----
(***************************************************************************)
(* A model of src/js/helpers.js of simplefog: the GPU pixel readback       *)
(* (readPixel), the two keydown listeners (control toggle and opacity      *)
(* toggle) and the percent <-> greyscale colour conversions.               *)
(*                                                                         *)
(* The three parts share no state in the code.  Each has its own           *)
(* specification (SpecPixel, SpecKeys, SpecColor); the variables of the    *)
(* other parts keep their initial value in it.                             *)
(***************************************************************************)
EXTENDS Integers, Sequences, FiniteSets

VARIABLES
  \* ---- host graphics state (canvas.app.renderer) ----
  live,          \* the render textures that are allocated and not destroyed
  bound,         \* renderer.renderTexture's current binding
  texRes,        \* texture -> baseTexture.resolution
  defaultRes,    \* the resolution the host gives the textures it generates
  \* ---- the frame of the current / last readPixel call ----
  pc,            \* position in readPixel
  target,        \* argument target
  query,         \* the arguments after target, as the caller passed them
  x,             \* argument x (after the default)
  y,             \* argument y (after the default)
  resolution,    \* local resolution
  renderTexture, \* local renderTexture
  generated,     \* local generated
  pixel,         \* local pixel (the Uint8Array)
  retval,        \* what the call returned
  thrown,        \* the error the call left with
  hostErr,       \* the error the host raised inside the call
  calls,         \* the host calls the current / last readPixel issued, in order
  live0,         \* live when the call was entered
  bound0,        \* bound when the call was entered
  texRes0,       \* texRes when the call was entered
  \* ---- the keydown listeners ----
  enableHotkeys, \* canvas.simplefog.getSetting('enableHotkeys')
  activeControl, \* ui.controls.activeControl
  timers,        \* the pending setTimeout callbacks, oldest first
  lastEvent,     \* the last keydown dispatched
  ctlLog,        \* what the control-toggle listener did on the last keydown
  opLog,         \* what the opacity-toggle listener did on the last keydown
  lastTool,      \* the last tool a deferred click reached
  overlapped,    \* whether a toggle arrived while a deferred click was pending
  slider,        \* input[name=brushOpacity]'s value (a string)
  toggled,       \* whether toggleSliderAndSubmitForm ever ran
  \* ---- the colour conversions ----
  percent,       \* the input of percentToHex
  hexStr,        \* percentToHex(percent)
  backPercent,   \* hexToPercent(hexStr)
  colorPc        \* position of the conversion

pixelVars == <<live, bound, texRes, defaultRes, pc, target, query, x, y, resolution,
               renderTexture, generated, pixel, retval, thrown, hostErr, calls,
               live0, bound0, texRes0>>
keyVars   == <<enableHotkeys, activeControl, timers, lastEvent, ctlLog, opLog,
               lastTool, overlapped, slider, toggled>>
colorVars == <<percent, hexStr, backPercent, colorPc>>
vars      == <<pixelVars, keyVars, colorVars>>

\* ------------------------------------------------------------------ bounds

\* The caller's own render textures are 1..CallerTextures.
CallerTextures == 1
\* Query coordinates range over -1..MaxCoord (negative: outside any texture).
MaxCoord == 1
\* Texture resolutions (device pixel ratios) range over 1..MaxResolution.
MaxResolution == 2
\* At most MaxTimers deferred clicks are pending at a time.
MaxTimers == 3

\* The value of a texture variable that holds no texture (let renderTexture;
\* nothing bound).  Texture identities are positive.
NoTexture == 0
\* The value of resolution before it is assigned (let resolution;).
NoResolution == 0
\* The value of pixel and of the result before they are assigned.
NoBuffer == [id |-> "undefined", bytes |-> <<>>]
\* No exception.
NoError == "none"
\* No target: outside a call.
NoTarget == [kind |-> "none", tex |-> NoTexture]

\* ============================================================= readPixel

\* Texture identities: the caller's, and two more for generateTexture (one
\* may still be referenced by the binding after it was destroyed).
Textures == 1..(CallerTextures + 2)
Resolutions == 1..MaxResolution
Coords == -1..MaxCoord
\* What the host may raise from generateTexture, bind or readPixels.
HostErrors == {"InvalidTarget", "ContextLost"}
\* Sample RGBA values the GPU may deliver.
SamplePixels == {<<0, 0, 0, 0>>, <<255, 0, 128, 255>>}

\* A drawable that is no render texture, and a render texture.
Drawable == [kind |-> "DisplayObject", tex |-> NoTexture]
RenderTextureOf(t) == [kind |-> "RenderTexture", tex |-> t]

\* The arguments after target, as the caller passes them: none, x, or x and y.
Queries == {<<>>} \cup {<<a>> : a \in Coords} \cup (Coords \X Coords)
\* Default parameter values (x = 0, y = 0): the i-th argument, or dflt when
\* the caller left it out.
Default(args, i, dflt) == IF Len(args) >= i THEN args[i] ELSE dflt

\* Faulty variant of IsRenderTexture (for C3): the instanceof test never
\* recognises a render texture.
NeverRenderTexture(tgt) == FALSE

\* target instanceof PIXI.RenderTexture
IsRenderTexture(tgt) == tgt.kind = "RenderTexture"

\* Faulty variant of NewUint8Array (for C7): a buffer for RGB only, one byte
\* short.
RgbUint8Array(n) == [id |-> "pixel", bytes |-> [i \in 1..(n - 1) |-> 0]]

\* new Uint8Array(n): n zero bytes.
NewUint8Array(n) == [id |-> "pixel", bytes |-> [i \in 1..n |-> 0]]

\* Faulty variant of DeviceCoord (for C4): the coordinate is passed on
\* without the resolution factor.
Unscaled(v, r) == v

\* x * resolution, y * resolution
DeviceCoord(v, r) == v * r

\* One host call, as the host sees it.
HostCall(op, t, args) == [op |-> op, tex |-> t, args |-> args]

\* The identities generateTexture may hand out: not live, and not the one the
\* binding still refers to.
FreshTextures == Textures \ (live \cup {bound})
\* The identity of a new texture.  Identities are opaque, so which of the
\* free ones it is does not matter: the least.
NewTexture == CHOOSE t \in FreshTextures : \A o \in FreshTextures : t <= o

\* readPixel can be called: no call is under way, and none has thrown (the
\* exception is not caught on the way up and ends the caller).
PixelIdle == pc \in {"idle", "returned"}

\* readPixel(target, x = 0, y = 0) is entered: lines 86-90.
Call(tgt, args) ==
  /\ PixelIdle
  /\ target' = tgt
  /\ query' = args
  /\ x' = Default(args, 1, 0)
  /\ y' = Default(args, 2, 0)
  /\ resolution' = NoResolution
  /\ renderTexture' = NoTexture
  /\ generated' = FALSE
  /\ pixel' = NoBuffer
  /\ retval' = NoBuffer
  /\ thrown' = NoError
  /\ hostErr' = NoError
  /\ calls' = <<>>
  /\ live0' = live
  /\ bound0' = bound
  /\ texRes0' = texRes
  /\ pc' = "l91"
  /\ UNCHANGED <<live, bound, texRes, defaultRes>>
  /\ UNCHANGED <<keyVars, colorVars>>

\* Faulty variant of Propagate (for C6): the host's error is caught and
\* another one thrown in its place.
Wrapped(e) == "SimplefogError"

\* What leaves readPixel when the host raises e: readPixel has no try/catch,
\* so e itself.
Propagate(e) == e

\* The host fails with e and the exception leaves readPixel.
Throw(e) ==
  /\ hostErr' = e
  /\ thrown' = Propagate(e)
  /\ pc' = "threw"

\* Lines 91-97: use the target, or rasterize it into a new texture.
\* generateTexture is called without a resolution: the new texture has the
\* host's default one.  It returns the texture or throws.
Acquire ==
  /\ pc = "l91"
  /\ \/ /\ IsRenderTexture(target)
        /\ renderTexture' = target.tex
        /\ pc' = "l98"
        /\ UNCHANGED <<generated, live, texRes, calls, hostErr, thrown>>
     \/ /\ ~IsRenderTexture(target)
        /\ FreshTextures # {}
        /\ LET t == NewTexture
               r == defaultRes
           IN
             /\ live' = live \cup {t}
             /\ texRes' = [texRes EXCEPT ![t] = r]
             /\ renderTexture' = t
             /\ calls' = Append(calls, HostCall("generateTexture", t, <<r>>))
        /\ generated' = TRUE
        /\ pc' = "l98"
        /\ UNCHANGED <<hostErr, thrown>>
     \/ /\ ~IsRenderTexture(target)
        /\ \E e \in HostErrors : Throw(e)
        /\ calls' = Append(calls, HostCall("generateTexture", NoTexture, <<>>))
        /\ UNCHANGED <<renderTexture, generated, live, texRes>>
  /\ UNCHANGED <<bound, target, x, y, resolution, pixel, retval, query, live0,
                 bound0, texRes0>>
  /\ UNCHANGED <<defaultRes, keyVars, colorVars>>

\* Lines 98-101: read the resolution and bind the texture.  renderTexture is
\* the caller's texture or the one generateTexture returned, so the test of
\* line 98 holds.  A bind that fails may or may not have moved the binding.
Bind ==
  /\ pc = "l98"
  /\ IF renderTexture # NoTexture
       THEN /\ resolution' = texRes[renderTexture]
            /\ calls' = Append(calls, HostCall("bind", renderTexture, <<>>))
            /\ \/ /\ bound' = renderTexture
                  /\ pc' = "l102"
                  /\ UNCHANGED <<hostErr, thrown>>
               \/ /\ \E e \in HostErrors : Throw(e)
                  /\ bound' \in {bound, renderTexture}
       ELSE /\ pc' = "l102"
            /\ UNCHANGED <<resolution, calls, bound, hostErr, thrown>>
  /\ UNCHANGED <<live, texRes, target, x, y, renderTexture, generated, pixel,
                 retval, query, live0,
                 bound0, texRes0>>
  /\ UNCHANGED <<defaultRes, keyVars, colorVars>>

\* Lines 102-105: allocate the 4-byte buffer and read one pixel into it.
\* The host either fills the buffer or, outside the framebuffer, leaves it.
Read ==
  /\ pc = "l102"
  /\ LET buf == NewUint8Array(4)
     IN  /\ calls' = Append(calls, HostCall("readPixels", bound,
                 <<DeviceCoord(x, resolution), DeviceCoord(y, resolution),
                   1, 1, "RGBA", "UNSIGNED_BYTE", buf.id>>))
         /\ \/ /\ \E data \in SamplePixels :
                    pixel' = [buf EXCEPT !.bytes =
                                [i \in DOMAIN buf.bytes |-> data[i]]]
               /\ pc' = "l106"
               /\ UNCHANGED <<hostErr, thrown>>
            \/ /\ pixel' = buf
               /\ pc' = "l106"
               /\ UNCHANGED <<hostErr, thrown>>
            \/ /\ pixel' = buf
               /\ \E e \in HostErrors : Throw(e)
  /\ UNCHANGED <<live, bound, texRes, target, x, y, resolution, renderTexture,
                 generated, retval, query, live0,
                 bound0, texRes0>>
  /\ UNCHANGED <<defaultRes, keyVars, colorVars>>

\* Faulty variant of Release (for C2): the generated texture is never
\* destroyed.
ReleaseForgotten ==
  /\ pc = "l106"
  /\ pc' = "l109"
  /\ UNCHANGED <<live, texRes, calls>>
  /\ UNCHANGED <<bound, target, x, y, resolution, renderTexture,
                 generated, pixel, retval, thrown, hostErr, query, live0,
                 bound0, texRes0>>
  /\ UNCHANGED <<defaultRes, keyVars, colorVars>>

\* Lines 106-108: destroy the texture readPixel generated.
Release ==
  /\ pc = "l106"
  /\ IF generated
       THEN /\ live' = live \ {renderTexture}
            /\ texRes' = [texRes EXCEPT ![renderTexture] = NoResolution]
            /\ calls' = Append(calls, HostCall("destroy", renderTexture, <<TRUE>>))
       ELSE UNCHANGED <<live, texRes, calls>>
  /\ pc' = "l109"
  /\ UNCHANGED <<bound, target, x, y, resolution, renderTexture,
                 generated, pixel, retval, thrown, hostErr, query, live0,
                 bound0, texRes0>>
  /\ UNCHANGED <<defaultRes, keyVars, colorVars>>

\* Faulty variant of Return (for C5): the previous binding is put back
\* before returning.
ReturnRestoringBinding ==
  /\ pc = "l109"
  /\ retval' = pixel
  /\ bound' = bound0
  /\ pc' = "returned"
  /\ UNCHANGED <<live, texRes, target, x, y, resolution, renderTexture,
                 generated, pixel, thrown, hostErr, calls, query, live0,
                 bound0, texRes0>>
  /\ UNCHANGED <<defaultRes, keyVars, colorVars>>

\* Line 109: return pixel.
Return ==
  /\ pc = "l109"
  /\ retval' = pixel
  /\ pc' = "returned"
  /\ UNCHANGED <<live, bound, texRes, target, x, y, resolution, renderTexture,
                 generated, pixel, thrown, hostErr, calls, query, live0,
                 bound0, texRes0>>
  /\ UNCHANGED <<defaultRes, keyVars, colorVars>>

\* The caller's textures, all at some resolution; nothing bound or one of them.
PixelInit ==
  /\ live = 1..CallerTextures
  /\ bound \in {NoTexture} \cup (1..CallerTextures)
  /\ \E r \in [1..CallerTextures -> Resolutions] :
       texRes = [t \in Textures |-> IF t \in DOMAIN r THEN r[t] ELSE NoResolution]
  /\ defaultRes \in Resolutions
  /\ pc = "idle"
  /\ target = NoTarget
  /\ query = <<>>
  /\ x = 0
  /\ y = 0
  /\ resolution = NoResolution
  /\ renderTexture = NoTexture
  /\ generated = FALSE
  /\ pixel = NoBuffer
  /\ retval = NoBuffer
  /\ thrown = NoError
  /\ hostErr = NoError
  /\ calls = <<>>
  /\ live0 = live
  /\ bound0 = bound
  /\ texRes0 = texRes

PixelFixed ==
  /\ live = 1..CallerTextures
  /\ bound = NoTexture
  /\ texRes = [t \in Textures |-> IF t \in 1..CallerTextures THEN 1 ELSE NoResolution]
  /\ defaultRes = 1
  /\ pc = "idle"
  /\ target = NoTarget
  /\ query = <<>>
  /\ x = 0
  /\ y = 0
  /\ resolution = NoResolution
  /\ renderTexture = NoTexture
  /\ generated = FALSE
  /\ pixel = NoBuffer
  /\ retval = NoBuffer
  /\ thrown = NoError
  /\ hostErr = NoError
  /\ calls = <<>>
  /\ live0 = live
  /\ bound0 = bound
  /\ texRes0 = texRes


PixelNext ==
  \/ \E tgt \in {Drawable} \cup {RenderTextureOf(t) : t \in 1..CallerTextures},
        args \in Queries : Call(tgt, args)
  \/ Acquire
  \/ Bind
  \/ Read
  \/ Release
  \/ Return

\* ===================================================== keydown listeners

\* The delay of the deferred tool click, in milliseconds.
ToolClickDelay == 500

Keys == {"s", "t", "x"}
Classes == {"vtt", "game"}
\* A keydown: its key, its ctrlKey and the classes of event.path[0].
Events == [key : Keys, ctrlKey : BOOLEAN, classes : SUBSET Classes]
NoEvent == [key |-> "", ctrlKey |-> FALSE, classes |-> {}]
\* The scene controls of the host; 'walls' stands for any third one.
Controls == {"token", "simplefog", "walls"}
NoTool == "none"

areHotkeysEnabled == enableHotkeys

toggleControls(event) == event.key = "s" /\ event.ctrlKey

\* Every allowed class must be on the element.
isOnCanvas(event) == \A allowedClass \in {"vtt", "game"} : allowedClass \in event.classes

getActiveControlName == activeControl

isActiveControl == getActiveControlName = "simplefog"

getNewControlName == IF isActiveControl THEN "token" ELSE "simplefog"

\* Faulty variant of getNewToolName (for C8): the tools of the two controls
\* are swapped.
SwappedToolName(controlName) == IF controlName = "simplefog" THEN "select" ELSE "grid"

getNewToolName(controlName) == IF controlName = "simplefog" THEN "grid" ELSE "select"

toggleOpacity(event) == event.key = "t"

\* jQuery's val(n) stores the number as its decimal string.
NumberToString(n) == IF n = 0 THEN "0" ELSE IF n = 100 THEN "100" ELSE "50"

\* The guard of the control-toggle listener (line 114, negated).
ControlToggleFires(event) ==
  areHotkeysEnabled /\ toggleControls(event) /\ isOnCanvas(event)

\* The guard of the opacity-toggle listener (line 189, negated).
OpacityToggleFires(event) ==
  areHotkeysEnabled /\ toggleOpacity(event) /\ isOnCanvas(event) /\ isActiveControl

\* The listener of addSimplefogControlToggleListener, lines 113-123: click the
\* scene control (the host makes it the active one) and defer the tool click.
ControlToggleListener(event) ==
  IF ControlToggleFires(event)
    THEN LET controlName == getNewControlName
             toolName == getNewToolName(controlName)
         IN  /\ activeControl' = controlName
             /\ timers' = Append(timers, toolName)
             /\ ctlLog' = << [op |-> "click", arg |-> controlName, delay |-> 0],
                             [op |-> "setTimeout", arg |-> toolName,
                              delay |-> ToolClickDelay] >>
             /\ overlapped' = (overlapped \/ timers # <<>>)
    ELSE /\ ctlLog' = <<>>
         /\ UNCHANGED <<activeControl, timers, overlapped>>

\* Faulty variant of toggleSliderAndSubmitForm (for C9): the value is
\* compared with the number 100, which the string that val() returns never
\* equals.
toggleComparingNumber ==
  /\ slider' = NumberToString(100)
  /\ opLog' = << [op |-> "val", arg |-> slider'],
                 [op |-> "submit", arg |-> "simplefog-brush-controls-form"] >>
  /\ toggled' = TRUE

\* toggleSliderAndSubmitForm, lines 205-210.
toggleSliderAndSubmitForm ==
  LET brushOpacity == slider
  IN  /\ slider' = NumberToString(IF brushOpacity = "100" THEN 0 ELSE 100)
      /\ opLog' = << [op |-> "val", arg |-> slider'],
                     [op |-> "submit", arg |-> "simplefog-brush-controls-form"] >>
      /\ toggled' = TRUE

\* The listener of addSimplefogOpacityToggleListener, lines 188-194.
OpacityToggleListener(event) ==
  IF OpacityToggleFires(event)
    THEN toggleSliderAndSubmitForm
    ELSE /\ opLog' = <<>>
         /\ UNCHANGED <<slider, toggled>>

\* A keydown reaches both listeners of window.  They react to different keys,
\* so at most one of them acts and their order does not matter.
KeyDown(event) ==
  /\ ControlToggleFires(event) => Len(timers) < MaxTimers
  /\ lastEvent' = event
  /\ ControlToggleListener(event)
  /\ OpacityToggleListener(event)
  /\ UNCHANGED <<enableHotkeys, lastTool>>
  /\ UNCHANGED <<pixelVars, colorVars>>

\* The oldest setTimeout callback runs (equal delays run in the order they
\* were set): it clicks the tool of that name among the active control's
\* tools.  The tool paired with the active control is there; whether another
\* control's tool is there too is the host's business.
TimerFire ==
  /\ timers # <<>>
  /\ LET toolName == Head(timers)
     IN  \E present \in BOOLEAN :
           /\ (toolName = getNewToolName(activeControl)) => present
           /\ lastTool' = IF present THEN toolName ELSE lastTool
  /\ timers' = Tail(timers)
  /\ UNCHANGED <<enableHotkeys, activeControl, lastEvent, ctlLog, opLog,
                 overlapped, slider, toggled>>
  /\ UNCHANGED <<pixelVars, colorVars>>

KeysInit ==
  /\ enableHotkeys \in BOOLEAN
  /\ activeControl \in Controls
  /\ timers = <<>>
  /\ lastEvent = NoEvent
  /\ ctlLog = <<>>
  /\ opLog = <<>>
  /\ lastTool = NoTool
  /\ overlapped = FALSE
  /\ slider \in {"0", "50", "100"}
  /\ toggled = FALSE

KeysFixed ==
  /\ enableHotkeys = TRUE
  /\ activeControl = "token"
  /\ timers = <<>>
  /\ lastEvent = NoEvent
  /\ ctlLog = <<>>
  /\ opLog = <<>>
  /\ lastTool = NoTool
  /\ overlapped = FALSE
  /\ slider = "100"
  /\ toggled = FALSE

KeysNext ==
  \/ \E event \in Events : KeyDown(event)
  \/ TimerFire

\* ====================================================== colour conversion

\* The largest percentage percentToHex is documented for.
MaxPercent == 100
\* 0xFFFFFF
White == 16777215

HexDigits == <<"0", "1", "2", "3", "4", "5", "6", "7", "8", "9",
               "a", "b", "c", "d", "e", "f">>

\* Math.ceil(a / b) for a >= 0, b > 0.
CeilDiv(a, b) == (a + b - 1) \div b

\* Math.ceil(n * 2.55).  The double nearest 2.55 lies just below it, so the
\* rounded product never exceeds 255 n / 100 and, n being an integer, never
\* falls to or below the integer under it: the result is the exact ceiling.
CeilTimes2_55(n) == CeilDiv(n * 255, 100)

\* Number.prototype.toString(16): the hexadecimal digits, no leading zero.
RECURSIVE toString16(_)
toString16(c) ==
  IF c < 16 THEN <<HexDigits[c + 1]>>
  ELSE Append(toString16(c \div 16), HexDigits[(c % 16) + 1])

\* The value of one hexadecimal digit.
DigitValue(d) == (CHOOSE i \in 1..16 : HexDigits[i] = d) - 1

\* The number a string "0x..." coerces to.
RECURSIVE ParseHexDigits(_)
ParseHexDigits(ds) ==
  IF ds = <<>> THEN 0
  ELSE 16 * ParseHexDigits(SubSeq(ds, 1, Len(ds) - 1)) + DigitValue(ds[Len(ds)])

ToNumber(str) == ParseHexDigits(SubSeq(str, 3, Len(str)))

\* percentToHex, lines 33-38.
percentToHex(n) ==
  LET c0 == toString16(CeilTimes2_55(n))
      c  == IF Len(c0) = 1 THEN <<"0">> \o c0 ELSE c0
  IN  <<"0", "x">> \o c \o c \o c

\* hexToPercent, lines 24-26: Math.ceil(n / 0xFFFFFF * 100).  On the values
\* percentToHex yields for 0..100 the double result equals the exact ceiling.
hexToPercent(n) == CeilDiv(ToNumber(n) * 100, White)

ColorInit ==
  /\ percent \in 0..MaxPercent
  /\ hexStr = <<>>
  /\ backPercent = 0
  /\ colorPc = "percent"

ColorFixed ==
  /\ percent = 0
  /\ hexStr = <<>>
  /\ backPercent = 0
  /\ colorPc = "percent"

\* percentToHex is applied to the percentage.
ToHex ==
  /\ colorPc = "percent"
  /\ hexStr' = percentToHex(percent)
  /\ colorPc' = "hex"
  /\ UNCHANGED <<percent, backPercent>>
  /\ UNCHANGED <<pixelVars, keyVars>>

\* hexToPercent is applied to the colour.
ToPercent ==
  /\ colorPc = "hex"
  /\ backPercent' = hexToPercent(hexStr)
  /\ colorPc' = "back"
  /\ UNCHANGED <<percent, hexStr>>
  /\ UNCHANGED <<pixelVars, keyVars>>

ColorNext ==
  \/ ToHex
  \/ ToPercent

\* ========================================================= specifications

InitPixel == PixelInit /\ KeysFixed /\ ColorFixed
InitKeys  == PixelFixed /\ KeysInit /\ ColorFixed
InitColor == PixelFixed /\ KeysFixed /\ ColorInit

SpecPixel == InitPixel /\ [][PixelNext]_vars
SpecKeys  == InitKeys /\ [][KeysNext]_vars
SpecColor == InitColor /\ [][ColorNext]_vars


\* ============================================================ properties

\* ---- readPixel ----

CallExited == pc \in {"returned", "threw"}
IsTextureTarget == target.kind = "RenderTexture"
IsDrawableTarget == target.kind = "DisplayObject"

\* The host calls of the current call that are op.
CallsOf(op) == {i \in DOMAIN calls : calls[i].op = op}
\* The textures generateTexture handed to the current call.
GeneratedTextures ==
  {calls[i].tex : i \in {j \in CallsOf("generateTexture") : calls[j].tex # NoTexture}}
\* The names of the host calls of the current call, in order.
CallOps == [i \in DOMAIN calls |-> calls[i].op]
FullSequence == <<"generateTexture", "bind", "readPixels", "destroy">>
\* The query of the current call, with the defaults for what was left out.
QueryX == IF Len(query) >= 1 THEN query[1] ELSE 0
QueryY == IF Len(query) >= 2 THEN query[2] ELSE 0
\* The resolution factor of the texture the current call samples: the
\* caller's texture's, or the one the host gave the generated texture.
SampledResolution ==
  IF IsTextureTarget THEN texRes0[target.tex]
  ELSE LET i == CHOOSE j \in CallsOf("generateTexture") : TRUE
       IN  calls[i].args[1]
\* The texture the current call samples.
SampledTexture ==
  IF IsTextureTarget THEN target.tex
  ELSE CHOOSE t \in GeneratedTextures : TRUE

\* C1 (as claimed): when a readPixel call on a target that is no render
\* texture has exited, by return or by an exception, no texture that
\* generateTexture allocated for it is still live.
C1_NoLeakOnAnyExit ==
  (CallExited /\ IsDrawableTarget) => GeneratedTextures \cap live = {}

\* C2: for a drawable target the host calls of one readPixel are, in order,
\* generateTexture, bind of the generated texture, readPixels, destroy(true)
\* of that texture: a call that returns has issued exactly these four, once
\* each, whatever was read, and a call under way or ended by a host failure
\* has issued a prefix of them.
C2_GenerateBindReadDestroy ==
  (IsDrawableTarget /\ pc # "idle") =>
    /\ Len(calls) <= Len(FullSequence)
    /\ CallOps = SubSeq(FullSequence, 1, Len(calls))
    /\ \A i \in DOMAIN calls :
         /\ calls[i].op \in {"bind", "destroy"} => calls[i].tex = calls[1].tex
         /\ calls[i].op = "readPixels" => calls[i].tex = calls[1].tex
         /\ calls[i].op = "destroy" => calls[i].args = <<TRUE>>
    /\ pc = "returned" => (Len(calls) = Len(FullSequence) /\ calls[1].tex # NoTexture)
C2_Witness ==
  /\ pc = "returned"
  /\ IsDrawableTarget
  /\ Len(calls) = 4
  /\ retval.bytes = <<255, 0, 128, 255>>

\* C3: for a target that is already a render texture, readPixel never calls
\* generateTexture and never destroys a texture: generated stays false during
\* the whole call and the caller's texture is live during and after it.
C3_TextureTargetUntouched ==
  (IsTextureTarget /\ pc # "idle") =>
    /\ generated = FALSE
    /\ CallsOf("generateTexture") = {}
    /\ CallsOf("destroy") = {}
    /\ target.tex \in live
    /\ live = live0
C3_Witness ==
  /\ pc = "returned"
  /\ IsTextureTarget
  /\ CallsOf("readPixels") # {}

\* C4: every low-level read of readPixel is a 1x1 read at (x * r, y * r),
\* x and y being the query with 0 for what the caller left out and r the
\* resolution of the texture sampled; a call issues at most one read, and a
\* call that returns exactly one.
C4_ReadAtScaledCoordinates ==
  /\ \A i \in CallsOf("readPixels") :
       /\ calls[i].args[1] = QueryX * SampledResolution
       /\ calls[i].args[2] = QueryY * SampledResolution
       /\ calls[i].args[3] = 1
       /\ calls[i].args[4] = 1
  /\ Cardinality(CallsOf("readPixels")) <= 1
  /\ pc = "returned" => Cardinality(CallsOf("readPixels")) = 1
C4_Witness ==
  /\ pc = "returned"
  /\ query = <<1>>
  /\ SampledResolution = 2
  /\ \E i \in CallsOf("readPixels") : calls[i].args[1] = 2 /\ calls[i].args[2] = 0

\* C5: when a readPixel call has returned, the live textures and their
\* resolutions are those of before the call, and the binding is the texture
\* that was sampled (it is not put back).
C5_OnlyBindingChanges ==
  pc = "returned" =>
    /\ live = live0
    /\ texRes = texRes0
    /\ bound = SampledTexture
C5_Witness ==
  /\ pc = "returned"
  /\ IsDrawableTarget
  /\ bound # bound0
  /\ bound0 # NoTexture
  /\ bound \notin live

\* C6: readPixel neither retries nor recovers nor validates: a call issues
\* readPixels at most once, and once whenever bind succeeded, whatever the
\* coordinates; when the host fails, the failing call is the last one, the
\* host's error leaves readPixel as it is and no buffer is returned.
C6_NoRetryNoRecovery ==
  /\ Cardinality(CallsOf("readPixels")) <= 1
  /\ pc \in {"l106", "l109", "returned"} => Cardinality(CallsOf("readPixels")) = 1
  /\ hostErr # NoError =>
       /\ pc = "threw"
       /\ thrown = hostErr
       /\ retval = NoBuffer
       /\ calls[Len(calls)].op \in {"generateTexture", "bind", "readPixels"}
  /\ pc = "threw" => hostErr # NoError
  /\ pc = "returned" => thrown = NoError
C6_Witness ==
  /\ pc = "threw"
  /\ thrown = "ContextLost"
  /\ CallsOf("readPixels") # {}
  /\ x < 0

\* C7: a readPixel call that returns yields a buffer of exactly 4 bytes, each
\* in 0..255, and it is the buffer that was handed to readPixels; so too for
\* coordinates outside the texture.
C7_FourByteResult ==
  pc = "returned" =>
    /\ DOMAIN retval.bytes = 1..4
    /\ \A i \in DOMAIN retval.bytes : retval.bytes[i] \in 0..255
    /\ \A i \in CallsOf("readPixels") : calls[i].args[7] = retval.id
    /\ retval = pixel
C7_Witness ==
  /\ pc = "returned"
  /\ x < 0
  /\ y < 0
  /\ Len(retval.bytes) = 4


\* ---- the keydown listeners ----

\* The keydown is Ctrl+'s' with hotkeys enabled on an element with both classes.
IsControlToggle(e) ==
  enableHotkeys /\ e.key = "s" /\ e.ctrlKey /\ "vtt" \in e.classes /\ "game" \in e.classes
\* The keydown is 't' with hotkeys enabled on the canvas, simplefog active.
IsOpacityToggle(e) ==
  /\ enableHotkeys /\ e.key = "t" /\ "vtt" \in e.classes /\ "game" \in e.classes
  /\ activeControl = "simplefog"
PairedTool(c) == IF c = "token" THEN "select" ELSE "grid"
\* The step runs a deferred click (the only step that shortens timers).
IsTimerStep == Len(timers') < Len(timers)

C8_Settled ==
  (timers = <<>> /\ (overlapped \/ lastTool # NoTool)) =>
    /\ activeControl \in {"token", "simplefog"}
    /\ lastTool = PairedTool(activeControl)
C8_Step ==
  IF IsTimerStep
    THEN /\ timers' = Tail(timers)
         /\ activeControl' = activeControl
         /\ lastTool' \in {lastTool, Head(timers)}
         /\ ctlLog' = ctlLog
    ELSE /\ lastTool' = lastTool
         /\ IF IsControlToggle(lastEvent')
              THEN LET c == IF activeControl = "simplefog" THEN "token" ELSE "simplefog"
                   IN  /\ activeControl' = c
                       /\ timers' = Append(timers, PairedTool(c))
                       /\ Len(ctlLog') = 2
                       /\ ctlLog'[1].op = "click" /\ ctlLog'[1].arg = c
                       /\ ctlLog'[2].op = "setTimeout"
                       /\ ctlLog'[2].arg = PairedTool(c)
                       /\ ctlLog'[2].delay > 0
              ELSE /\ ctlLog' = <<>>
                   /\ UNCHANGED <<activeControl, timers>>
\* C8: a keydown that is Ctrl+'s' with hotkeys enabled on an element with the
\* classes vtt and game clicks the control 'token' if 'simplefog' is active
\* and 'simplefog' otherwise, and sets one timer for the click of the paired
\* tool ('select' for 'token', 'grid' for 'simplefog'); the tool is clicked
\* only when that timer runs, in a later step; any other keydown clicks
\* nothing.  Once no deferred click is pending, the last tool clicked is the
\* one paired with the active control, also when toggles overlapped.
C8_ControlToggle == [][C8_Step]_vars /\ []C8_Settled
C8_Witness ==
  /\ timers = <<>>
  /\ overlapped
  /\ lastTool = "grid"
  /\ activeControl = "simplefog"
  /\ Len(ctlLog) = 2

C9_Step ==
  IF IsTimerStep
    THEN UNCHANGED <<slider, opLog>>
    ELSE IF IsOpacityToggle(lastEvent')
           THEN /\ slider' = (IF slider = "100" THEN "0" ELSE "100")
                /\ Cardinality({i \in DOMAIN opLog' : opLog'[i].op = "submit"}) = 1
                /\ toggled'
           ELSE /\ slider' = slider
                /\ opLog' = <<>>
                /\ toggled' = toggled
\* C9: the brush-opacity slider changes and the brush-controls form is
\* submitted only on a keydown with key 't' while hotkeys are enabled, the
\* target is on the canvas and 'simplefog' is the active control; such a
\* keydown sets the slider to 0 if it was 100 and to 100 otherwise and submits
\* the form once, so that after the first one the value is 0 or 100 and
\* alternates.  Every other keydown leaves the slider and submits nothing.
C9_OpacityToggle == [][C9_Step]_vars /\ [](toggled => slider \in {"0", "100"})
C9_Witness ==
  /\ toggled
  /\ slider = "0"
  /\ lastEvent.key = "t"
  /\ Len(opLog) = 2

\* ---- the colour conversions ----

\* The colour is "0x" and one byte of two hexadecimal digits three times.
IsGrey(str, byte) ==
  /\ Len(str) = 8
  /\ SubSeq(str, 1, 2) = <<"0", "x">>
  /\ \A k \in 0..2 :
       /\ str[3 + 2 * k] = HexDigits[(byte \div 16) + 1]
       /\ str[4 + 2 * k] = HexDigits[(byte % 16) + 1]

\* C10 (as claimed): for every integer percent n in 0..100, percentToHex(n)
\* is the grey 0xCCCCCC with C = ceil(n * 2.55), and hexToPercent gives n
\* back from it.
C10_RoundTrip ==
  /\ colorPc \in {"hex", "back"} =>
       \E byte \in 0..255 : /\ 100 * byte >= 255 * percent
                            /\ 100 * (byte - 1) < 255 * percent
                            /\ IsGrey(hexStr, byte)
  /\ colorPc = "back" => backPercent = percent

====
